---- MODULE Spec2Model ----
(***************************************************************************)
(* Model of the reqwest-retry orchestrator: RetryFuture::poll              *)
(* (src/src/retry_future.rs), the policy resolution of RetryConfig         *)
(* (src/src/config.rs), the retry predicates (src/src/lib.rs,              *)
(* src/src/predicates.rs) and the backoff functions (src/src/backoff.rs).  *)
(*                                                                         *)
(* One behaviour is one retry sequence: a RetryFuture built by             *)
(* RetryFuture::new and driven by repeated calls of poll.  Every iteration *)
(* of poll's loop is one action.  Durations are whole milliseconds, an     *)
(* Option<T> is a sequence of length at most one.                          *)
(***************************************************************************)
EXTENDS Integers, Sequences, FiniteSets, TLC

VARIABLES
    cfg,                 \* RetryFuture.config (never written by poll)
    request_builder,     \* RetryFuture.request_builder : Option<RequestBuilder>
    attempts,            \* RetryFuture.attempts
    current_error_type,  \* RetryFuture.current_error_type : Option<RetryReason>
    state,               \* tag of RetryFuture.state
    future,              \* RetryState::Requesting.future: "none", "pending", "done"
    sleep,               \* RetryState::Sleeping.sleep: Option<delay in ms>
    sends,               \* history: number of request.send() calls
    sleeps,              \* history: number of sleep(delay) timers started
    hist,                \* history: outcomes of the completed transport calls
    events,              \* history: RetryAttempt values handed to the observers
    returned,            \* history: the Poll::Ready values poll has returned
    panicked,            \* "none", or where a poll panicked
    dropped,             \* the RetryFuture has been dropped by its owner
    observer_panics,     \* the configured observers panic when they are called
    call,                \* Option: the last direct call of a pure function
    build,               \* how the crate is built: overflow checks, DefaultHasher
    parked,              \* Option: the fields of a second RetryFuture of the task
    running,             \* which of the two RetryFutures the fields above are
    single               \* Option: the RetryFuture of the single-policy engine

\* the fields and the history of one RetryFuture
seq == <<request_builder, attempts, current_error_type, state, future, sleep,
         sends, sleeps, hist, events, returned, panicked, dropped>>

\* what no poll of a RetryFuture touches
rest == <<observer_panics, build, call, parked, running, single>>

vars == <<cfg, request_builder, attempts, current_error_type, state, future,
          sleep, sends, sleeps, hist, events, returned, panicked, dropped,
          observer_panics, build, call, parked, running, single>>

----------------------------------------------------------------------------
(* Bounds of the model *)

\* largest max_retries a policy or an override is given
MaxBudget == 3

\* how many final results a caller that keeps polling is shown
MaxResults == 2

\* largest max_retries of a policy that two RetryFutures share
PairBudget == 1

\* largest of the small attempt numbers a backoff function is called with
MaxAttempt == 5

(* Program constants *)

\* a multiplier is written as the whole number n over 2^k, n below 2^31:
\* 2.0 is whole(2), 1.5 is <<3, 1>>
whole(n) == <<n, 0>>

DefaultMaxRetries == 3
DefaultBaseDelay == 100
DefaultMaxDelay == 30000
DefaultMultiplier == whole(2)
TooManyRequests == 429

----------------------------------------------------------------------------
(* Option<T> *)

None == <<>>
Some(x) == <<x>>
unwrap_or(opt, dflt) == IF opt = None THEN dflt ELSE opt[1]

----------------------------------------------------------------------------
(* RetryReason, and what the transport can answer *)

RetryReasons == {"NetworkError", "ServerError", "RateLimit", "RequestError"}

\* the statuses of the responses the transport returns
Statuses == {200, 400, TooManyRequests, 500}

\* the kinds of reqwest::Error request.send() fails with: a timeout, a failed
\* connection, another failure while sending, a redirect loop
ErrorKinds == {"Timeout", "Connect", "Request", "Redirect"}

\* Result<Response, ReqwestError> of the transport call number id
Responses(id) == { [resp |-> TRUE, status |-> s, kind |-> "none", id |-> id] : s \in Statuses }
Errors(id) == { [resp |-> FALSE, status |-> 0, kind |-> k, id |-> id] : k \in ErrorKinds }
Outcomes(id) == Responses(id) \cup Errors(id)

is_timeout(e) == e.kind = "Timeout"
is_connect(e) == e.kind = "Connect"
is_request(e) == e.kind \in {"Timeout", "Connect", "Request"}
is_server_error(status) == status >= 500 /\ status <= 599
is_client_error(status) == status >= 400 /\ status <= 499

----------------------------------------------------------------------------
(* Retry predicates *)

default_should_retry_error(e) ==
    \/ is_timeout(e)
    \/ is_connect(e)
    \/ is_request(e)
    \/ (e.status # 0 /\ is_server_error(e.status))

\* (faulty variant: every 4xx status is retried, not only 429)
default_should_retry_response_AnyClientError(r) ==
    is_server_error(r.status) \/ is_client_error(r.status)

default_should_retry_response(r) ==
    is_server_error(r.status) \/ r.status = TooManyRequests

network_errors_only(e) == is_timeout(e) \/ is_connect(e)

server_errors_and_rate_limit(r) ==
    is_server_error(r.status) \/ r.status = TooManyRequests

\* (config.should_retry)(&error)
should_retry(c, e) ==
    IF c.should_retry = "network_errors_only"
    THEN network_errors_only(e)
    ELSE default_should_retry_error(e)

\* (config.should_retry_response)(&response)
should_retry_response(c, r) ==
    IF c.should_retry_response = "server_errors_and_rate_limit"
    THEN server_errors_and_rate_limit(r)
    ELSE default_should_retry_response(r)

----------------------------------------------------------------------------
(* Classification *)

default_error_classifier(e) ==
    IF is_timeout(e) \/ is_connect(e) THEN "NetworkError"
    ELSE IF e.status # 0
         THEN (IF is_server_error(e.status) THEN "ServerError" ELSE "RequestError")
         ELSE "RequestError"

default_response_classifier(r) ==
    IF is_server_error(r.status) THEN "ServerError"
    ELSE IF r.status = TooManyRequests THEN "RateLimit"
    ELSE "RequestError"

\* the reason the engine classifies an outcome with
classify(o) ==
    IF o.resp THEN default_response_classifier(o) ELSE default_error_classifier(o)

----------------------------------------------------------------------------
(* Backoff functions *)

(* A natural number is the sequence of its digits of base 256, least        *)
(* significant first.  A u64 has 8 digits; a Duration is its as_millis()    *)
(* as u64.  A call of a backoff function returns Some(delay), or None if    *)
(* it panics.                                                               *)

\* the k digits of a number below 2^31
digits(n, k) ==
    [i \in 1..k |-> IF i = 1 THEN n % 256
                    ELSE IF i = 2 THEN (n \div 256) % 256
                    ELSE IF i = 3 THEN (n \div 65536) % 256
                    ELSE IF i = 4 THEN n \div 16777216
                    ELSE 0]

\* Duration::from_millis(ms), and attempt as u64, of a number below 2^31
from_millis(ms) == digits(ms, 8)

\* Duration::as_millis() of a value below 2^31
as_millis(d) == d[1] + 256 * d[2] + 65536 * d[3] + 16777216 * d[4]

zero(k) == [i \in 1..k |-> 0]
ones(k) == [i \in 1..k |-> 255]
is_zero(d) == \A i \in 1..Len(d) : d[i] = 0
widen(d, k) == d \o zero(k - Len(d))
low(d, k) == SubSeq(d, 1, k)
high(d, k) == SubSeq(d, k + 1, Len(d))
digit(d, i) == IF i \in 1..Len(d) THEN d[i] ELSE 0

\* u64::MAX
u64_MAX == ones(8)

\* a < b, for two values of the same width
less(a, b) ==
    \E i \in 1..Len(a) : a[i] < b[i] /\ \A j \in (i + 1)..Len(a) : a[j] = b[j]

\* Ord::min and Ord::max
Min(a, b) == IF less(b, a) THEN b ELSE a
Max(a, b) == IF less(a, b) THEN b ELSE a

\* the digits lo..hi of the sums c[lo], ..., c[hi] with the carry coming
\* in, and the carry going out
RECURSIVE carried(_, _, _, _)
carried(c, lo, hi, carry) ==
    IF lo = hi
    THEN LET s == c[lo] + carry IN [digits |-> <<s % 256>>, carry |-> s \div 256]
    ELSE LET mid == (lo + hi) \div 2
             left == carried(c, lo, mid, carry)
             right == carried(c, mid + 1, hi, left.carry) IN
         [digits |-> left.digits \o right.digits, carry |-> right.carry]

\* the sum of the a[i] * b[k + 1 - i], i in lo..hi
RECURSIVE column(_, _, _, _, _)
column(a, b, k, lo, hi) ==
    IF lo = hi THEN a[lo] * digit(b, k + 1 - lo)
    ELSE LET mid == (lo + hi) \div 2 IN
         column(a, b, k, lo, mid) + column(a, b, k, mid + 1, hi)

\* the exact product of two values, Len(a) + Len(b) digits wide
product(a, b) ==
    LET n == Len(a) + Len(b)
        c == [k \in 1..n |->
                 IF k = n THEN 0
                 ELSE column(a, b, k, IF k > Len(b) THEN k + 1 - Len(b) ELSE 1,
                             IF k < Len(a) THEN k ELSE Len(a))] IN
    carried(c, 1, n, 0).digits

\* the exact sum of two values of the same width, one digit wider
sum(a, b) ==
    LET c == [k \in 1..Len(a) |-> a[k] + b[k]]
        r == carried(c, 1, Len(a), 0) IN
    r.digits \o <<r.carry>>

reverse(d) == [i \in 1..Len(d) |-> d[Len(d) + 1 - i]]

\* long division by a small number of the digits lo..hi of a value that is
\* written most significant digit first, with the remainder coming in: the
\* digits of the quotient, and the remainder going out
RECURSIVE divided(_, _, _, _, _)
divided(a, d, lo, hi, rem) ==
    IF lo = hi
    THEN LET n == rem * 256 + a[lo] IN [digits |-> <<n \div d>>, rem |-> n % d]
    ELSE LET mid == (lo + hi) \div 2
             left == divided(a, d, lo, mid, rem)
             right == divided(a, d, mid + 1, hi, left.rem) IN
         [digits |-> left.digits \o right.digits, rem |-> right.rem]

quotient(a, d) == reverse(divided(reverse(a), d, 1, Len(a), 0).digits)

\* a value cut to k digits, the largest k-digit value if it does not fit
saturate(d, k) == IF is_zero(high(d, k)) THEN low(d, k) ELSE ones(k)

\* a * b on u64, of the exact product p: with overflow checks (the dev
\* profile) a product that does not fit panics, without them (the release
\* profile) it wraps
checked(overflow_checks, p) ==
    IF is_zero(high(p, 8)) \/ ~overflow_checks THEN Some(low(p, 8)) ELSE None

\* (faulty variant: the product saturates)
mul_u64_Saturating(overflow_checks, a, b) == Some(saturate(product(a, b), 8))
mul_u64(overflow_checks, a, b) == checked(overflow_checks, product(a, b))

\* u64::saturating_add
saturating_add(a, b) == saturate(sum(a, b), 8)

(* A non-negative f64 is zero, or sig * 2^exp with 53 significant bits,     *)
(* 2^52 <= sig < 2^53, sig held in 7 digits, or +infinity, or NaN.  The     *)
(* largest finite f64 is (2^53 - 1) * 2^971; the values of the backoff      *)
(* functions are zero or at least 0.5, far above the subnormal range.       *)

\* the number of significant bits of a value: those of its leading digit,
\* and 8 for every digit below
leading(d) ==
    CHOOSE t \in 0..Len(d) : (\A i \in (t + 1)..Len(d) : d[i] = 0) /\ (t = 0 \/ d[t] # 0)
bit_length_from(d, top) ==
    IF top = 0 THEN 0
    ELSE 8 * (top - 1) + (CHOOSE n \in 1..8 : d[top] < 2^n /\ 2^(n - 1) <= d[top])
bit_length(d) == bit_length_from(d, leading(d))

\* 2^k, the quotient by 2^k and the product with 2^k, at the width of d
power_of_two(k, n) == [i \in 1..n |-> IF i = (k \div 8) + 1 THEN 2^(k % 8) ELSE 0]
shift_right(d, k) ==
    IF k >= 8 * Len(d) THEN zero(Len(d))
    ELSE SubSeq(quotient(d, 2^(k % 8)), (k \div 8) + 1, Len(d)) \o zero(k \div 8)
shift_left(d, k) == low(zero(k \div 8) \o product(d, <<2^(k % 8)>>), Len(d))
plus(a, b) == low(sum(a, b), Len(a))

f64_zero == [sig |-> zero(7), exp |-> 0]

\* f64::INFINITY and f64::NAN: the exponent above that of every finite f64
f64_INFINITY == [sig |-> zero(7), exp |-> 972]
f64_NAN == [sig |-> ones(7), exp |-> 972]

\* the f64 of the significand r, which has 53 bits, or 54 bits when the
\* rounding has carried into 2^53
normal(r, e) ==
    IF bit_length(r) = 54 THEN [sig |-> low(shift_right(r, 1), 7), exp |-> e + 1]
    ELSE [sig |-> low(r, 7), exp |-> e]

\* to nearest, ties to even: q is the value w without its k lowest bits,
\* mid the value halfway between q * 2^k and (q + 1) * 2^k
nearest(w, q, mid) ==
    IF less(mid, w) \/ (mid = w /\ q[1] % 2 = 1) THEN plus(q, power_of_two(0, Len(w)))
    ELSE q

round_off(w, k, e, q) ==
    normal(nearest(w, q, plus(shift_left(q, k), power_of_two(k - 1, Len(w)))), e + k)

\* a value of k + 53 significant bits as f64
round_bits(w, k, e) ==
    IF k <= 0 THEN [sig |-> low(shift_left(w, -k), 7), exp |-> e + k]
    ELSE round_off(w, k, e, shift_right(w, k))

\* a rounded value that is above the largest finite f64 is +infinity
finite_or_infinite(x) == IF x.exp > 971 THEN f64_INFINITY ELSE x

\* the f64 nearest to d * 2^e, ties to even
round(d, e) ==
    IF is_zero(d) THEN f64_zero
    ELSE finite_or_infinite(round_bits(d \o zero(IF Len(d) < 8 THEN 8 - Len(d) ELSE 1),
                                       bit_length(d) - 53, e))

\* x as f64, of a u64
as_f64(x) == round(x, 0)

\* x as u64, of an f64: the whole part, saturating, and 0 of NaN
as_u64(x) ==
    IF x = f64_NAN THEN zero(8)
    ELSE IF x.exp > 11 THEN u64_MAX
    ELSE IF x.exp >= 0 THEN shift_left(widen(x.sig, 8), x.exp)
    ELSE widen(shift_right(x.sig, -x.exp), 8)

\* f64::min: if one of the two is NaN, the other; else y if y < x, where 0
\* is the least and +infinity the greatest of the values
min_f64(x, y) ==
    IF x = f64_NAN THEN y
    ELSE IF y = f64_NAN THEN x
    ELSE IF x = f64_zero \/ y = f64_INFINITY THEN x
    ELSE IF y = f64_zero \/ x = f64_INFINITY THEN y
    ELSE IF y.exp < x.exp \/ (y.exp = x.exp /\ less(y.sig, x.sig)) THEN y
    ELSE x

\* x * y on f64: 0 * infinity is NaN
mul_f64(x, y) ==
    IF x = f64_NAN \/ y = f64_NAN THEN f64_NAN
    ELSE IF x = f64_INFINITY \/ y = f64_INFINITY
         THEN (IF x = f64_zero \/ y = f64_zero THEN f64_NAN ELSE f64_INFINITY)
    ELSE round(product(x.sig, y.sig), x.exp + y.exp)

\* x + y on f64, of two finite values whose exponents differ by less than 64
add_f64(x, y) ==
    LET e == IF is_zero(x.sig) THEN y.exp
             ELSE IF is_zero(y.sig) THEN x.exp
             ELSE IF x.exp < y.exp THEN x.exp ELSE y.exp
        a == IF is_zero(x.sig) THEN zero(16) ELSE shift_left(widen(x.sig, 16), x.exp - e)
        b == IF is_zero(y.sig) THEN zero(16) ELSE shift_left(widen(y.sig, 16), y.exp - e) IN
    round(sum(a, b), e)

\* 0.5
half == round(<<1>>, -1)

\* h as f64 / 1000.0, of h in 0..999: the quotient is cut after 128 bits of
\* fraction, which leaves it on the side of every tie of the rounding that
\* h / 1000 is on
jitter_factor(h) == round(quotient(zero(16) \o digits(h, 2), 1000), -128)

\* __powidf2 of compiler-builtins: pow *= a for every bit of the exponent
\* that is set, a *= a between the bits
RECURSIVE powi_loop(_, _, _)
powi_next(pow, square, b) ==
    IF b = 0 THEN pow
    ELSE IF pow = f64_zero \/ square = f64_zero THEN f64_zero
    ELSE powi_loop(pow, square, b)
powi_loop(pow, a, b) ==
    powi_next(IF b % 2 = 1 THEN mul_f64(pow, a) ELSE pow, mul_f64(a, a), b \div 2)

\* multiplier.powi(attempt as i32); the multiplier m is the f64 of m[1] over
\* 2^m[2], which has no rounding
powi(m, n) == powi_loop(as_f64(from_millis(1)), round(digits(m[1], 4), -m[2]), n)

\* the attempt numbers, the durations and the multipliers the backoff
\* functions are called with directly: small ones, and ones whose products
\* leave the 64-bit range (F(93) fits in a u64, F(94) does not), and one
\* at which 10.0^attempt is above every finite f64; the durations above
\* 10 s are 2^53 + 3 ms, which no f64 is equal to, 2^62 ms and u64::MAX ms
Attempts == (0..MaxAttempt) \cup {92, 93, 400}

Durations ==
    { from_millis(ms) : ms \in {0, 1, 100, 1000, 2000, 10000} }
    \cup { <<3, 0, 0, 0, 0, 0, 32, 0>>, <<0, 0, 0, 0, 0, 0, 0, 64>>, u64_MAX }

\* 1.0, 1.5, 2.0 and 10.0
Multipliers == {whole(1), <<3, 1>>, whole(2), whole(10)}

\* hasher.finish() % 1000 after attempt.hash(&mut hasher) of a
\* DefaultHasher::new(): SipHash-1-3 with the keys 0 and 0 of the 8 bytes of
\* the attempt, for the attempts 0..11, 92, 93 and 400
SipHashes == <<413, 257, 982, 626, 345, 652, 800, 123, 354, 568, 431, 830>>

default_hasher(attempt) ==
    CASE attempt < Len(SipHashes) -> SipHashes[attempt + 1]
      [] attempt = 92 -> 361
      [] attempt = 93 -> 829
      [] attempt = 400 -> 423

\* 0.5 + jitter_factor * 0.5
jitter_scale(h) == add_f64(half, mul_f64(jitter_factor(h), half))

\* the conversions, the exponential delays and the jittered delays of the
\* direct calls as tables: f @@ <<>> is the function f with every value
\* computed once
Conversions == [ d \in Durations |-> as_f64(d) ] @@ <<>>

Exponentials ==
    LET powers == [ x \in Multipliers \X Attempts |-> powi(x[1], x[2]) ] @@ <<>> IN
    [ x \in Attempts \X Durations \X Multipliers |->
        mul_f64(Conversions[x[2]], powers[<<x[3], x[1]>>]) ] @@ <<>>

Jittered ==
    LET hashes == {0, 999} \cup { default_hasher(a) : a \in Attempts }
        scales == [ h \in hashes |-> jitter_scale(h) ] @@ <<>> IN
    [ x \in { <<a, d, m, h>> \in Attempts \X Durations \X Multipliers \X hashes :
                h \in {0, 999, default_hasher(a)} } |->
        mul_f64(Exponentials[<<x[1], x[2], x[3]>>], scales[x[4]]) ] @@ <<>>

\* base_delay.as_millis() as f64 * multiplier.powi(attempt as i32)
exponential(attempt, base_delay, multiplier) ==
    IF <<attempt, base_delay, multiplier>> \in DOMAIN Exponentials
    THEN Exponentials[<<attempt, base_delay, multiplier>>]
    ELSE mul_f64(as_f64(base_delay), powi(multiplier, attempt))

\* max_delay.as_millis() as f64
max_delay_f64(max_delay) ==
    IF max_delay \in Durations THEN Conversions[max_delay] ELSE as_f64(max_delay)

\* (faulty variant: the delay is not cut at max_delay)
default_backoff_Uncapped(attempt, base_delay, multiplier, max_delay) ==
    Some(as_u64(exponential(attempt, base_delay, multiplier)))

default_backoff(attempt, base_delay, multiplier, max_delay) ==
    Some(as_u64(min_f64(exponential(attempt, base_delay, multiplier),
                        max_delay_f64(max_delay))))

\* the product cut at max_delay, if the product has not panicked
min_max_delay(delay_ms, max_delay) ==
    IF delay_ms = None THEN None ELSE Some(Min(delay_ms[1], max_delay))

\* linear as the build with or without overflow checks runs it
linear_built(overflow_checks, attempt, base_delay, multiplier, max_delay) ==
    min_max_delay(mul_u64(overflow_checks, base_delay, from_millis(attempt)), max_delay)

linear(attempt, base_delay, multiplier, max_delay) ==
    linear_built(build.overflow_checks, attempt, base_delay, multiplier, max_delay)

\* (faulty variant: the delay is cut at max_delay)
fixed_Clamped(attempt, base_delay, multiplier, max_delay) ==
    IF attempt = 0 THEN Some(from_millis(0)) ELSE Some(Min(base_delay, max_delay))

fixed(attempt, base_delay, multiplier, max_delay) ==
    IF attempt = 0 THEN Some(from_millis(0)) ELSE Some(base_delay)

\* (hasher.finish() % 1000) of the attempt number hashed by DefaultHasher
jitter_hash(attempt) == build.hash[attempt]

\* (faulty variant: the factor is the jitter alone, between 0 and 1)
exponential_jitter_FullJitter(attempt, base_delay, multiplier, max_delay) ==
    LET jittered_delay ==
            mul_f64(exponential(attempt, base_delay, multiplier),
                    jitter_factor(jitter_hash(attempt))) IN
    Some(as_u64(min_f64(jittered_delay, max_delay_f64(max_delay))))

exponential_jitter(attempt, base_delay, multiplier, max_delay) ==
    LET hashed == <<attempt, base_delay, multiplier, jitter_hash(attempt)>>
        jittered_delay ==
            IF hashed \in DOMAIN Jittered THEN Jittered[hashed]
            ELSE mul_f64(exponential(attempt, base_delay, multiplier),
                         jitter_scale(jitter_hash(attempt))) IN
    Some(as_u64(min_f64(jittered_delay, max_delay_f64(max_delay))))

\* <<a, b>> after the given number of iterations of the loop of fib, run as
\* two halves one after the other; once b is u64::MAX, one more iteration
\* makes both u64::MAX for good
RECURSIVE fib_loop(_, _)
fib_loop(ab, steps) ==
    IF steps = 0 THEN ab
    ELSE IF steps = 1 THEN LET temp == saturating_add(ab[1], ab[2]) IN <<ab[2], temp>>
    ELSE LET first == fib_loop(ab, steps \div 2) IN
         IF first[2] = u64_MAX THEN <<u64_MAX, u64_MAX>>
         ELSE fib_loop(first, steps - steps \div 2)

fib(n) ==
    IF n = 0 THEN from_millis(0)
    ELSE IF n = 1 THEN from_millis(1)
    ELSE fib_loop(<<from_millis(0), from_millis(1)>>, n - 1)[2]

\* fib(attempt + 1).max(1), computed once for the attempts of the direct
\* calls
FibMultipliers == [ a \in Attempts |-> Max(fib(a + 1), from_millis(1)) ] @@ <<>>

fib_multiplier(attempt) ==
    IF attempt \in Attempts THEN FibMultipliers[attempt]
    ELSE Max(fib(attempt + 1), from_millis(1))

\* fibonacci as the build with or without overflow checks runs it
fibonacci_built(overflow_checks, attempt, base_delay, multiplier, max_delay) ==
    min_max_delay(mul_u64(overflow_checks, base_delay, fib_multiplier(attempt)),
                  max_delay)

fibonacci(attempt, base_delay, multiplier, max_delay) ==
    fibonacci_built(build.overflow_checks, attempt, base_delay, multiplier, max_delay)

\* a backoff function called by its name
apply_backoff(fn, attempt, base_delay, multiplier, max_delay) ==
    CASE fn = "linear" -> linear(attempt, base_delay, multiplier, max_delay)
      [] fn = "fixed" -> fixed(attempt, base_delay, multiplier, max_delay)
      [] fn = "fibonacci" -> fibonacci(attempt, base_delay, multiplier, max_delay)
      [] fn = "exponential_jitter" ->
            exponential_jitter(attempt, base_delay, multiplier, max_delay)
      [] OTHER -> default_backoff(attempt, base_delay, multiplier, max_delay)

BackoffFns == {"default_backoff", "linear", "fixed", "fibonacci", "exponential_jitter"}

\* what hasher.finish() % 1000 can be, as a function of the attempt: the
\* algorithm of DefaultHasher is not specified, so besides the hasher of the
\* standard library as it is there are the hashers that give the least
\* and the greatest jitter
Hashes ==
    { [a \in Attempts |-> default_hasher(a)],
      [a \in Attempts |-> 0],
      [a \in Attempts |-> 999] }

\* the builds with the hasher as it is, with and without overflow checks
EngineBuilds ==
    [overflow_checks : BOOLEAN, hash : {[a \in Attempts |-> default_hasher(a)]}]

\* the overflow checks bear on linear and fibonacci alone and the hasher on
\* exponential_jitter alone: the other hashers are taken without overflow
\* checks
Builds == EngineBuilds \cup [overflow_checks : {FALSE}, hash : Hashes]

----------------------------------------------------------------------------
(* Policy resolution *)

\* self.error_strategies.get(error_type)
strategy_get(c, error_type) ==
    IF error_type \in DOMAIN c.error_strategies
    THEN Some(c.error_strategies[error_type])
    ELSE None

\* strategy.and_then(|s| s.<field>)
and_then_max_retries(strategy) == IF strategy = None THEN None ELSE strategy[1].max_retries
and_then_base_delay(strategy) == IF strategy = None THEN None ELSE strategy[1].base_delay
and_then_max_delay(strategy) == IF strategy = None THEN None ELSE strategy[1].max_delay
and_then_multiplier(strategy) == IF strategy = None THEN None ELSE strategy[1].backoff_multiplier
and_then_backoff_fn(strategy) == IF strategy = None THEN None ELSE strategy[1].backoff_fn

\* (faulty variant: the override of base_delay is not looked at)
get_effective_strategy_BaseDelayOfBase(c, error_type) ==
    LET strategy == strategy_get(c, error_type) IN
    [ max_retries |-> unwrap_or(and_then_max_retries(strategy), c.max_retries),
      base_delay |-> c.base_delay,
      max_delay |-> unwrap_or(and_then_max_delay(strategy), c.max_delay),
      backoff_multiplier |-> unwrap_or(and_then_multiplier(strategy), c.backoff_multiplier),
      backoff_fn |-> unwrap_or(and_then_backoff_fn(strategy), c.backoff_fn) ]
get_effective_strategy(c, error_type) ==
    LET strategy == strategy_get(c, error_type) IN
    [ max_retries |-> unwrap_or(and_then_max_retries(strategy), c.max_retries),
      base_delay |-> unwrap_or(and_then_base_delay(strategy), c.base_delay),
      max_delay |-> unwrap_or(and_then_max_delay(strategy), c.max_delay),
      backoff_multiplier |-> unwrap_or(and_then_multiplier(strategy), c.backoff_multiplier),
      backoff_fn |-> unwrap_or(and_then_backoff_fn(strategy), c.backoff_fn) ]

\* the strategy of the first attempt: the base fields of the policy
base_strategy(c) ==
    [ max_retries |-> c.max_retries,
      base_delay |-> c.base_delay,
      max_delay |-> c.max_delay,
      backoff_multiplier |-> c.backoff_multiplier,
      backoff_fn |-> c.backoff_fn ]

----------------------------------------------------------------------------
(* The policies and requests a sequence is started with *)

\* ErrorStrategy::new() with some fields set
RateLimitStrategy ==
    [ max_retries |-> Some(MaxBudget), base_delay |-> Some(1000), max_delay |-> None,
      backoff_multiplier |-> None, backoff_fn |-> Some("linear") ]

NetworkStrategy ==
    [ max_retries |-> Some(1), base_delay |-> None, max_delay |-> Some(5000),
      backoff_multiplier |-> None, backoff_fn |-> Some("fibonacci") ]

NoRetryStrategy ==
    [ max_retries |-> Some(0), base_delay |-> None, max_delay |-> None,
      backoff_multiplier |-> None, backoff_fn |-> None ]

NoStrategies == [r \in {} |-> NoRetryStrategy]

ErrorStrategyMaps ==
    { NoStrategies,
      [r \in {"RateLimit"} |-> RateLimitStrategy],
      [r \in {"RateLimit", "NetworkError"} |->
          IF r = "RateLimit" THEN RateLimitStrategy ELSE NetworkStrategy],
      [r \in {"ServerError"} |-> NoRetryStrategy] }

\* RetryConfig::default() with the builder methods applied
RetryConfigs ==
    { [ max_retries |-> m,
        base_delay |-> DefaultBaseDelay,
        max_delay |-> DefaultMaxDelay,
        backoff_multiplier |-> DefaultMultiplier,
        should_retry |-> sr,
        should_retry_response |-> "default_should_retry_response",
        backoff_fn |-> "default_backoff",
        on_retry |-> obs[1],
        on_failure |-> obs[2],
        error_strategies |-> es ] :
        m \in 0..MaxBudget,
        sr \in {"default_should_retry_error", "network_errors_only"},
        obs \in BOOLEAN \X BOOLEAN,
        es \in ErrorStrategyMaps }

\* test_effective_strategy: a base of 3 retries and 100 ms, with an override
\* of 10 retries and 1 s for RateLimit
TestStrategy ==
    [ max_retries |-> Some(10), base_delay |-> Some(1000), max_delay |-> None,
      backoff_multiplier |-> None, backoff_fn |-> None ]

TestConfig ==
    [ max_retries |-> 3,
      base_delay |-> 100,
      max_delay |-> DefaultMaxDelay,
      backoff_multiplier |-> DefaultMultiplier,
      should_retry |-> "default_should_retry_error",
      should_retry_response |-> "default_should_retry_response",
      backoff_fn |-> "default_backoff",
      on_retry |-> FALSE,
      on_failure |-> FALSE,
      error_strategies |-> [r \in {"RateLimit"} |-> TestStrategy] ]

\* an override that sets every field
FullStrategy ==
    [ max_retries |-> Some(0), base_delay |-> Some(50), max_delay |-> Some(60000),
      backoff_multiplier |-> Some(whole(3)), backoff_fn |-> Some("fixed") ]

\* the policies get_effective_strategy is called on directly
PolicyConfigs ==
    RetryConfigs \cup
    { [TestConfig EXCEPT !.error_strategies = es] :
        es \in { [r \in {"RateLimit"} |-> TestStrategy],
                 [r \in {"NetworkError", "ServerError"} |-> FullStrategy],
                 [r \in RetryReasons |->
                     IF r = "RateLimit" THEN TestStrategy ELSE FullStrategy] } }

\* RetryConfig::default() of lib.rs: max_delay is 30 ms (and max_retries 0)
SingleDefaultMaxDelay == 30

\* the policies both engines can be given: no overrides, the default
\* backoff, no observers; with the delays of RetryConfig::default() of
\* config.rs, with those of RetryConfig::default() of lib.rs, whose
\* max_delay is below base_delay, and with delays that reach max_delay
\* at the second retry
SinglePolicyConfigs ==
    { [c EXCEPT !.base_delay = d[1], !.max_delay = d[2]] :
        c \in { b \in RetryConfigs :
                  /\ b.error_strategies = NoStrategies
                  /\ b.backoff_fn = "default_backoff"
                  /\ ~b.on_retry /\ ~b.on_failure },
        d \in { <<DefaultBaseDelay, DefaultMaxDelay>>,
                <<DefaultBaseDelay, SingleDefaultMaxDelay>>,
                <<1000, 2000>> } }

\* the strategies the policies resolve to, and the calls the engine makes
\* with them: the build, the backoff function, the attempt and the three
\* fields of the strategy it is called with
Strategies ==
    { get_effective_strategy(c, r) :
        c \in PolicyConfigs \cup SinglePolicyConfigs, r \in RetryReasons }
    \cup { base_strategy(c) : c \in PolicyConfigs \cup SinglePolicyConfigs }

StrategyCalls ==
    { <<overflow_checks, s.backoff_fn, attempt,
        s.base_delay, s.backoff_multiplier, s.max_delay>> :
        overflow_checks \in BOOLEAN, s \in Strategies, attempt \in 1..MaxBudget }

\* a backoff function that does not hash, called by its name, as the build
\* with or without overflow checks runs it
apply_built(overflow_checks, fn, attempt, base_delay, multiplier, max_delay) ==
    CASE fn = "linear" ->
            linear_built(overflow_checks, attempt, base_delay, multiplier, max_delay)
      [] fn = "fibonacci" ->
            fibonacci_built(overflow_checks, attempt, base_delay, multiplier, max_delay)
      [] fn = "fixed" -> fixed(attempt, base_delay, multiplier, max_delay)
      [] OTHER -> default_backoff(attempt, base_delay, multiplier, max_delay)

\* the delays of the calls of StrategyCalls, in milliseconds, computed once;
\* the strategies keep every product far below 2^64, so that the calls return
StrategyDelays ==
    [ c \in StrategyCalls |->
        as_millis(apply_built(c[1], c[2], c[3], from_millis(c[4]), c[5],
                              from_millis(c[6]))[1]) ]

\* (strategy.backoff_fn)(attempt, base_delay, multiplier, max_delay), in
\* milliseconds
call_backoff(fn, attempt, base_delay, multiplier, max_delay) ==
    IF <<build.overflow_checks, fn, attempt, base_delay, multiplier, max_delay>>
           \in StrategyCalls
    THEN StrategyDelays[<<build.overflow_checks, fn, attempt, base_delay,
                          multiplier, max_delay>>]
    ELSE as_millis(apply_backoff(fn, attempt, from_millis(base_delay), multiplier,
                                 from_millis(max_delay))[1])

\* a request whose body can be cloned, and one whose body is a stream
RequestBuilders == { [cloneable |-> TRUE], [cloneable |-> FALSE] }

try_clone(builder) == IF builder.cloneable THEN Some(builder) ELSE None

----------------------------------------------------------------------------
(* RetryError and the results of poll *)

Ok(response) == [ok |-> TRUE, err |-> "none", outcome |-> Some(response)]
Err(e) == [ok |-> FALSE, err |-> e, outcome |-> None]
ErrWith(e, error) == [ok |-> FALSE, err |-> e, outcome |-> Some(error)]

\* RetryAttempt
RetryAttempt(kind, attempt, max_attempts, delay, outcome, error_type) ==
    [ kind |-> kind,
      attempt |-> attempt,
      max_attempts |-> max_attempts,
      delay |-> delay,
      error |-> IF outcome.resp THEN None ELSE Some(outcome.id),
      response_status |-> IF outcome.resp THEN Some(outcome.status) ELSE None,
      error_type |-> error_type ]

----------------------------------------------------------------------------
(* RetryFuture::new *)

New ==
    /\ request_builder \in { Some(b) : b \in RequestBuilders }
    /\ attempts = 0
    /\ current_error_type = None
    /\ state = "Ready"
    /\ future = "none"
    /\ sleep = None
    /\ sends = 0
    /\ sleeps = 0
    /\ hist = <<>>
    /\ events = <<>>
    /\ returned = <<>>
    /\ panicked = "none"
    /\ dropped = FALSE

\* one retry sequence of a policy whose observers return
Init ==
    /\ cfg \in RetryConfigs
    /\ New
    /\ observer_panics = FALSE
    /\ build \in EngineBuilds
    /\ call = None
    /\ parked = None
    /\ running = 1
    /\ single = None

\* poll is called on a RetryFuture that is alive and has not panicked
Polled == ~dropped /\ panicked = "none"

\* return Poll::Ready(result), the state left as it is
Return(result) ==
    /\ Len(returned) < MaxResults
    /\ returned' = Append(returned, result)

\* poll, the Ready arm: the strategy of the last-seen reason
ReadyStrategy ==
    IF current_error_type # None
    THEN get_effective_strategy(cfg, current_error_type[1])
    ELSE base_strategy(cfg)

\* poll, the Ready arm: *this.attempts > strategy.max_retries
\* (faulty variant: >= refuses the attempt the budget still allows)
ReadyBudgetExceeded_OffByOne(strategy) == attempts >= strategy.max_retries
ReadyBudgetExceeded(strategy) == attempts > strategy.max_retries

\* poll, the Ready arm: the clone of the request, or the error returned
\* (faulty variant: a failed try_clone goes unnoticed)
clone_request_Unchecked(builder) ==
    IF builder = None THEN "RequestBuilderNotAvailable" ELSE "cloned"
clone_request(builder) ==
    IF builder = None THEN "RequestBuilderNotAvailable"
    ELSE IF try_clone(builder[1]) = None THEN "RequestBuilderCloneError"
    ELSE "cloned"

PollReady ==
    /\ Polled
    /\ state = "Ready"
    /\ LET strategy == ReadyStrategy
           request == clone_request(request_builder) IN
       IF ReadyBudgetExceeded(strategy)
       THEN /\ Return(Err("MaxRetriesExceeded"))
            /\ UNCHANGED <<state, future, sends>>
       ELSE IF request # "cloned"
       THEN /\ Return(Err(request))
            /\ UNCHANGED <<state, future, sends>>
       ELSE /\ state' = "Requesting"
            /\ future' = "pending"
            /\ sends' = sends + 1
            /\ UNCHANGED returned
    /\ UNCHANGED <<cfg, request_builder, attempts, current_error_type, sleep,
                   sleeps, hist, events, panicked, dropped>>
    /\ UNCHANGED rest

\* on_retry(&retry_info), if an observer is configured
\* (faulty variant: the observer is not called)
EmitRetry_Silent(strategy, error_type, o, delay) == events
\* (faulty variant: max_attempts is the budget, not the budget plus one)
EmitRetry_MaxIsBudget(strategy, error_type, o, delay) ==
    IF cfg.on_retry
    THEN Append(events, RetryAttempt("on_retry", attempts + 1,
                    strategy.max_retries, delay, o, error_type))
    ELSE events
EmitRetry(strategy, error_type, o, delay) ==
    IF cfg.on_retry
    THEN Append(events, RetryAttempt("on_retry", attempts + 1,
                    strategy.max_retries + 1, delay, o, error_type))
    ELSE events

\* on_failure(&retry_info), if an observer is configured
\* (faulty variant: the observer is not called)
EmitFailure_Silent(strategy, error_type, error) == events
EmitFailure(strategy, error_type, error) ==
    IF cfg.on_failure
    THEN Append(events, RetryAttempt("on_failure", attempts,
                    strategy.max_retries + 1, 0, error, error_type))
    ELSE events

\* the call of a configured observer unwinds poll
ObserverPanics(configured) == configured /\ observer_panics

\* the retry both branches of the Requesting arm decide; a panic of on_retry
\* unwinds poll after the counter is advanced and before the timer is made
\* (faulty variant: the retry goes back to Ready with no timer)
Retry_NoTimer(strategy, error_type, o) ==
    LET delay == call_backoff(strategy.backoff_fn, attempts + 1, strategy.base_delay,
                              strategy.backoff_multiplier, strategy.max_delay) IN
    /\ attempts' = attempts + 1
    /\ current_error_type' = Some(error_type)
    /\ events' = EmitRetry(strategy, error_type, o, delay)
    /\ IF ObserverPanics(cfg.on_retry)
       THEN /\ panicked' = "on_retry"
            /\ future' = "done"
            /\ UNCHANGED <<state, sleep, sleeps>>
       ELSE /\ state' = "Ready"
            /\ future' = "none"
            /\ UNCHANGED <<sleep, sleeps, panicked>>
    /\ UNCHANGED returned
\* (faulty variant: the delay is the one of the counter before the increment)
Retry_StaleCounter(strategy, error_type, o) ==
    LET delay == call_backoff(strategy.backoff_fn, attempts, strategy.base_delay,
                              strategy.backoff_multiplier, strategy.max_delay) IN
    /\ attempts' = attempts + 1
    /\ current_error_type' = Some(error_type)
    /\ events' = EmitRetry(strategy, error_type, o, delay)
    /\ IF ObserverPanics(cfg.on_retry)
       THEN /\ panicked' = "on_retry"
            /\ future' = "done"
            /\ UNCHANGED <<state, sleep, sleeps>>
       ELSE /\ state' = "Sleeping"
            /\ future' = "none"
            /\ sleep' = Some(delay)
            /\ sleeps' = sleeps + 1
            /\ UNCHANGED panicked
    /\ UNCHANGED returned
Retry(strategy, error_type, o) ==
    LET delay == call_backoff(strategy.backoff_fn, attempts + 1, strategy.base_delay,
                              strategy.backoff_multiplier, strategy.max_delay) IN
    /\ attempts' = attempts + 1
    /\ current_error_type' = Some(error_type)
    /\ events' = EmitRetry(strategy, error_type, o, delay)
    /\ IF ObserverPanics(cfg.on_retry)
       THEN /\ panicked' = "on_retry"
            /\ future' = "done"
            /\ UNCHANGED <<state, sleep, sleeps>>
       ELSE /\ state' = "Sleeping"
            /\ future' = "none"
            /\ sleep' = Some(delay)
            /\ sleeps' = sleeps + 1
            /\ UNCHANGED panicked
    /\ UNCHANGED returned

\* the Requesting arm: *this.attempts < strategy.max_retries
\* (faulty variant: <= allows one retry too many)
ResponseBudgetLeft_OffByOne(strategy) == attempts <= strategy.max_retries
ResponseBudgetLeft(strategy) == attempts < strategy.max_retries

\* the Requesting arm: *this.attempts >= strategy.max_retries
\* (faulty variant: only the earlier attempts that resolved to this strategy
\* are counted against its budget)
ErrorBudgetExhausted_PerReason(strategy) ==
    Cardinality({ i \in 1..Len(hist) :
                    get_effective_strategy(cfg, classify(hist[i])) = strategy })
        >= strategy.max_retries
ErrorBudgetExhausted(strategy) == attempts >= strategy.max_retries

\* the Requesting arm: !(this.config.should_retry)(&error)
\* (faulty variant: the predicate is terminal only once the base budget is used)
ErrorIsTerminal_BudgetFirst(error) ==
    ~should_retry(cfg, error) /\ attempts >= cfg.max_retries
ErrorIsTerminal(error) == ~should_retry(cfg, error)

\* Poll::Ready(Ok(response)) of the transport call
OnResponse(response) ==
    LET error_type == default_response_classifier(response) IN
    IF should_retry_response(cfg, response)
    THEN LET strategy == get_effective_strategy(cfg, error_type) IN
         IF ResponseBudgetLeft(strategy)
         THEN Retry(strategy, error_type, response)
         ELSE /\ Return(Ok(response))
              /\ future' = "done"
              /\ UNCHANGED <<attempts, current_error_type, events, state, sleep, sleeps,
                             panicked>>
    ELSE /\ Return(Ok(response))
         /\ future' = "done"
         /\ UNCHANGED <<attempts, current_error_type, events, state, sleep, sleeps,
                        panicked>>

\* Poll::Ready(Err(error)) of the transport call
OnError(error) ==
    LET error_type == default_error_classifier(error) IN
    IF ErrorIsTerminal(error)
    THEN /\ Return(ErrWith("NonRetryableError", error))
         /\ future' = "done"
         /\ UNCHANGED <<attempts, current_error_type, events, state, sleep, sleeps,
                        panicked>>
    ELSE LET strategy == get_effective_strategy(cfg, error_type) IN
         IF ErrorBudgetExhausted(strategy)
         THEN /\ events' = EmitFailure(strategy, error_type, error)
              /\ IF ObserverPanics(cfg.on_failure)
                 THEN /\ panicked' = "on_failure"
                      /\ UNCHANGED returned
                 ELSE /\ Return(ErrWith("RequestError", error))
                      /\ UNCHANGED panicked
              /\ future' = "done"
              /\ UNCHANGED <<attempts, current_error_type, state, sleep, sleeps>>
         ELSE Retry(strategy, error_type, error)

\* poll, the Requesting arm, when the transport call completes
PollRequesting ==
    /\ Polled
    /\ state = "Requesting"
    /\ future = "pending"
    /\ \E o \in Outcomes(sends) :
          /\ hist' = Append(hist, o)
          /\ IF o.resp THEN OnResponse(o) ELSE OnError(o)
    /\ UNCHANGED <<cfg, request_builder, sends, dropped>>
    /\ UNCHANGED rest

\* poll, the Requesting arm, after the transport call has completed: the arm
\* polls the boxed future again, which panics or stays pending
PollCompleted ==
    /\ Polled
    /\ state = "Requesting"
    /\ future = "done"
    /\ \E inner \in {"panic", "pending"} :
          panicked' = IF inner = "panic" THEN "future" ELSE panicked
    /\ UNCHANGED <<cfg, request_builder, attempts, current_error_type, state, future,
                   sleep, sends, sleeps, hist, events, returned, dropped>>
    /\ UNCHANGED rest

\* poll, the Sleeping arm, when the timer has elapsed
\* (faulty variant: the arm stays in Sleeping instead of going back to Ready)
PollSleeping_Stuck ==
    /\ Polled
    /\ state = "Sleeping"
    /\ UNCHANGED vars
\* (faulty variant: the timer is kept when the state goes back to Ready)
PollSleeping_TimerKept ==
    /\ Polled
    /\ state = "Sleeping"
    /\ state' = "Ready"
    /\ UNCHANGED <<cfg, request_builder, attempts, current_error_type, future, sleep,
                   sends, sleeps, hist, events, returned, panicked, dropped>>
    /\ UNCHANGED rest
PollSleeping ==
    /\ Polled
    /\ state = "Sleeping"
    /\ state' = "Ready"
    /\ sleep' = None
    /\ UNCHANGED <<cfg, request_builder, attempts, current_error_type, future,
                   sends, sleeps, hist, events, returned, panicked, dropped>>
    /\ UNCHANGED rest

\* poll, the Done arm; no assignment of the source sets RetryState::Done, so
\* the arm is not part of Next
PollDone ==
    /\ Polled
    /\ state = "Done"
    /\ panicked' = "RetryFuture polled after completion"
    /\ UNCHANGED <<cfg, request_builder, attempts, current_error_type, state, future,
                   sleep, sends, sleeps, hist, events, returned, dropped>>
    /\ UNCHANGED rest

\* the owner drops the RetryFuture: its fields are dropped with it, the boxed
\* transport future of Requesting and the timer of Sleeping included, and no
\* poll can follow
\* (faulty variant: the transport call and the timer are detached, not owned)
Drop_Detached ==
    /\ Polled
    /\ dropped' = TRUE
    /\ UNCHANGED <<cfg, request_builder, attempts, current_error_type, state, future,
                   sleep, sends, sleeps, hist, events, returned, panicked>>
    /\ UNCHANGED rest
Drop ==
    /\ Polled
    /\ dropped' = TRUE
    /\ future' = IF future = "pending" THEN "cancelled" ELSE future
    /\ sleep' = None
    /\ UNCHANGED <<cfg, request_builder, attempts, current_error_type, state,
                   sends, sleeps, hist, events, returned, panicked>>
    /\ UNCHANGED rest

Next ==
    \/ PollReady
    \/ PollRequesting
    \/ PollCompleted
    \/ PollSleeping
    \/ Drop

Spec == Init /\ [][Next]_vars

----------------------------------------------------------------------------
(* Two RetryFutures of one policy, polled by one executor *)

\* the executor turns from one RetryFuture to the other: each owns its
\* fields, so the fields of the one it leaves are kept as they are
\* (faulty variant: the attempt counter is one counter shared by the two)
Switch_SharedCounter ==
    /\ parked # None
    /\ parked' = Some(seq)
    /\ request_builder' = parked[1][1]
    /\ attempts' = attempts
    /\ current_error_type' = parked[1][3]
    /\ state' = parked[1][4]
    /\ future' = parked[1][5]
    /\ sleep' = parked[1][6]
    /\ sends' = parked[1][7]
    /\ sleeps' = parked[1][8]
    /\ hist' = parked[1][9]
    /\ events' = parked[1][10]
    /\ returned' = parked[1][11]
    /\ panicked' = parked[1][12]
    /\ dropped' = parked[1][13]
    /\ running' = 3 - running
    /\ UNCHANGED <<cfg, observer_panics, build, call, single>>
Switch ==
    /\ parked # None
    /\ parked' = Some(seq)
    /\ request_builder' = parked[1][1]
    /\ attempts' = parked[1][2]
    /\ current_error_type' = parked[1][3]
    /\ state' = parked[1][4]
    /\ future' = parked[1][5]
    /\ sleep' = parked[1][6]
    /\ sends' = parked[1][7]
    /\ sleeps' = parked[1][8]
    /\ hist' = parked[1][9]
    /\ events' = parked[1][10]
    /\ returned' = parked[1][11]
    /\ panicked' = parked[1][12]
    /\ dropped' = parked[1][13]
    /\ running' = 3 - running
    /\ UNCHANGED <<cfg, observer_panics, build, call, single>>

\* the policies two RetryFutures are built from
PairConfigs ==
    { c \in RetryConfigs :
        /\ c.max_retries = PairBudget
        /\ c.error_strategies = [r \in {"ServerError"} |-> NoRetryStrategy]
        /\ c.should_retry = "default_should_retry_error"
        /\ c.on_retry /\ c.on_failure }

\* RetryFuture::new, twice, with the same policy
PairInit ==
    /\ cfg \in PairConfigs
    /\ New
    /\ observer_panics = FALSE
    /\ build \in EngineBuilds
    /\ call = None
    /\ parked \in { Some(<<Some(b), 0, None, "Ready", "none", None, 0, 0, <<>>, <<>>,
                            <<>>, "none", FALSE>>) : b \in RequestBuilders }
    /\ running = 1
    /\ single = None

PairNext ==
    \/ PollReady
    \/ PollRequesting
    \/ PollCompleted
    \/ PollSleeping
    \/ Drop
    \/ Switch

PairSpec == PairInit /\ [][PairNext]_vars

----------------------------------------------------------------------------
(* Direct calls of the pure functions *)

\* self.get_effective_strategy(&error_type) on a policy, which it borrows
CallGetEffectiveStrategy ==
    /\ call = None
    /\ \E error_type \in RetryReasons :
          call' = Some([ fn |-> "get_effective_strategy",
                         error_type |-> error_type,
                         result |-> get_effective_strategy(cfg, error_type) ])
    /\ UNCHANGED <<cfg, seq, observer_panics, build, parked, running, single>>

PolicyInit ==
    /\ cfg \in PolicyConfigs
    /\ New
    /\ observer_panics = FALSE
    /\ build \in EngineBuilds
    /\ call = None
    /\ parked = None
    /\ running = 1
    /\ single = None

PolicyNext ==
    \/ CallGetEffectiveStrategy

PolicySpec == PolicyInit /\ [][PolicyNext]_vars

\* a backoff function called with durations of its caller's choice
CallBackoff ==
    /\ call = None
    /\ \E fn \in BackoffFns, attempt \in Attempts, base_delay \in Durations,
          multiplier \in Multipliers, max_delay \in Durations :
          call' = Some([ fn |-> fn,
                         attempt |-> attempt,
                         base_delay |-> base_delay,
                         multiplier |-> multiplier,
                         max_delay |-> max_delay,
                         result |-> apply_backoff(fn, attempt, base_delay, multiplier,
                                                  max_delay) ])
    /\ UNCHANGED <<cfg, seq, observer_panics, build, parked, running, single>>

BackoffInit ==
    /\ cfg = TestConfig
    /\ New
    /\ request_builder[1].cloneable
    /\ observer_panics = FALSE
    /\ build \in Builds
    /\ call = None
    /\ parked = None
    /\ running = 1
    /\ single = None

BackoffNext ==
    \/ CallBackoff

BackoffSpec == BackoffInit /\ [][BackoffNext]_vars

----------------------------------------------------------------------------
\* the executor polls the RetryFuture again whenever it is woken: every
\* transport call completes, every timer elapses, and a RetryFuture that is
\* Ready is polled
Fairness ==
    /\ WF_vars(PollReady)
    /\ WF_vars(PollRequesting)
    /\ WF_vars(PollSleeping)

FairSpec == Spec /\ Fairness

\* one retry sequence of a policy whose observers return or panic
ObserverInit ==
    /\ cfg \in RetryConfigs
    /\ New
    /\ observer_panics \in BOOLEAN
    /\ build \in EngineBuilds
    /\ call = None
    /\ parked = None
    /\ running = 1
    /\ single = None

ObserverSpec == ObserverInit /\ [][Next]_vars

----------------------------------------------------------------------------
(* The single-policy RetryFuture of lib.rs, and the per-reason RetryFuture
   run on the transport outcomes it has met *)

\* RetryFuture::new of lib.rs, with the history of its polls
SingleNew(builder) ==
    [ request_builder |-> builder, attempts |-> 0, state |-> "Ready",
      future |-> "none", sleep |-> None,
      sends |-> 0, delays |-> <<>>, hist |-> <<>>, returned |-> <<>> ]

\* the delay the Requesting arm of lib.rs computes inline:
\* base_delay_ms as f64 * multiplier.powi(attempts), min max_delay_ms, as u64
inline_delay(base_delay, multiplier, max_delay, n) ==
    as_millis(as_u64(min_f64(exponential(n, from_millis(base_delay), multiplier),
                             as_f64(from_millis(max_delay)))))

\* the delays the single-policy engine computes for its policies, computed
\* once
SingleDelayCalls ==
    { <<c.base_delay, c.backoff_multiplier, c.max_delay, n>> :
        c \in SinglePolicyConfigs, n \in 1..MaxBudget }

SingleDelays ==
    [ c \in SingleDelayCalls |-> inline_delay(c[1], c[2], c[3], c[4]) ]

\* the delay for the counter n, in milliseconds
single_delay(n) ==
    IF <<cfg.base_delay, cfg.backoff_multiplier, cfg.max_delay, n>> \in SingleDelayCalls
    THEN SingleDelays[<<cfg.base_delay, cfg.backoff_multiplier, cfg.max_delay, n>>]
    ELSE inline_delay(cfg.base_delay, cfg.backoff_multiplier, cfg.max_delay, n)

\* return Poll::Ready(result) from the poll of lib.rs
SingleReturn(s, result) ==
    /\ Len(s.returned) < MaxResults
    /\ single' = Some([s EXCEPT !.returned = Append(@, result)])

\* the retry of the Requesting arm of lib.rs
\* (faulty variant: the delay is the one of the counter before the increment)
SingleRetry_StaleCounter(s, o) ==
    LET delay == single_delay(s.attempts) IN
    single' = Some([s EXCEPT !.attempts = @ + 1,
                             !.state = "Sleeping",
                             !.future = "none",
                             !.sleep = Some(delay),
                             !.delays = Append(@, delay),
                             !.hist = Append(@, o)])
SingleRetry(s, o) ==
    LET delay == single_delay(s.attempts + 1) IN
    single' = Some([s EXCEPT !.attempts = @ + 1,
                             !.state = "Sleeping",
                             !.future = "none",
                             !.sleep = Some(delay),
                             !.delays = Append(@, delay),
                             !.hist = Append(@, o)])

\* the result the Requesting arm of lib.rs returns
SingleResult(s, o, result) ==
    single' = Some([s EXCEPT !.future = "done",
                             !.hist = Append(@, o),
                             !.returned = Append(@, result)])

\* poll of lib.rs, the Ready arm
SinglePollReady ==
    /\ single # None
    /\ single[1].state = "Ready"
    /\ LET s == single[1]
           request == clone_request(s.request_builder) IN
       IF s.attempts > cfg.max_retries
       THEN SingleReturn(s, Err("MaxRetriesExceeded"))
       ELSE IF request # "cloned"
       THEN SingleReturn(s, Err(request))
       ELSE single' = Some([s EXCEPT !.state = "Requesting",
                                     !.future = "pending",
                                     !.sends = @ + 1])
    /\ UNCHANGED <<cfg, seq, observer_panics, build, call, parked, running>>

\* poll of lib.rs, the Requesting arm, when the transport call completes
SinglePollRequesting ==
    /\ single # None
    /\ single[1].state = "Requesting"
    /\ single[1].future = "pending"
    /\ LET s == single[1] IN
       \E o \in Outcomes(s.sends) :
          IF o.resp
          THEN IF should_retry_response(cfg, o) /\ s.attempts < cfg.max_retries
               THEN SingleRetry(s, o)
               ELSE SingleResult(s, o, Ok(o))
          ELSE IF ~should_retry(cfg, o)
               THEN SingleResult(s, o, ErrWith("NonRetryableError", o))
               ELSE IF s.attempts >= cfg.max_retries
               THEN SingleResult(s, o, ErrWith("RequestError", o))
               ELSE SingleRetry(s, o)
    /\ UNCHANGED <<cfg, seq, observer_panics, build, call, parked, running>>

\* poll of lib.rs, the Sleeping arm, when the timer has elapsed
SinglePollSleeping ==
    /\ single # None
    /\ single[1].state = "Sleeping"
    /\ single' = Some([single[1] EXCEPT !.state = "Ready", !.sleep = None])
    /\ UNCHANGED <<cfg, seq, observer_panics, build, call, parked, running>>

\* the single-policy RetryFuture has returned: the outcomes of its transport
\* calls are on record
Recorded == single # None /\ single[1].returned # <<>>

\* the transport gives the per-reason RetryFuture the outcomes on record
Replayed == hist' = SubSeq(single[1].hist, 1, Len(hist'))

\* both RetryFutures are built from the same request and the same policy
SingleInit ==
    /\ cfg \in SinglePolicyConfigs
    /\ New
    /\ observer_panics = FALSE
    /\ build \in EngineBuilds
    /\ call = None
    /\ parked = None
    /\ running = 1
    /\ single = Some(SingleNew(request_builder))

SingleNext ==
    \/ SinglePollReady
    \/ SinglePollRequesting
    \/ SinglePollSleeping
    \/ Recorded /\ PollReady
    \/ Recorded /\ PollRequesting /\ Replayed
    \/ Recorded /\ PollSleeping

SinglePolicySpec == SingleInit /\ [][SingleNext]_vars

----------------------------------------------------------------------------
(* Vocabulary of the properties *)

Completed == returned # <<>>
Cloneable == request_builder # None /\ request_builder[1].cloneable
LastOutcome == hist[Len(hist)]
EventsOf(kind) == { i \in 1..Len(events) : events[i].kind = kind }
EffectiveMax(reason) == get_effective_strategy(cfg, reason).max_retries

\* an outcome the predicates accept for a retry
Retryable(o) == IF o.resp THEN should_retry_response(cfg, o) ELSE should_retry(cfg, o)

\* the policy of RetryConfig::default() as far as the budget goes
DefaultBudget == cfg.max_retries = DefaultMaxRetries /\ cfg.error_strategies = NoStrategies

\* every completed attempt returned a response of this status
AlwaysStatus(status) ==
    /\ hist # <<>>
    /\ \A i \in 1..Len(hist) : hist[i].resp /\ hist[i].status = status

\* a step that is a poll of the RetryFuture
PollStep == ~dropped'

\* the step in which the outstanding transport call completes
AttemptCompletes ==
    /\ state = "Requesting"
    /\ future = "pending"
    /\ Len(hist') = Len(hist) + 1

----------------------------------------------------------------------------
(* C1: a transport that answers 500 on every attempt, default budget        *)

\* C1 as stated: with max_retries = 3 and no overrides, a transport that
\* always answers 500 is tried 4 times, and the sequence then ends with
\* RetryError::MaxRetriesExceeded and one on_failure event.
C1_BudgetExhaustedError ==
    (Completed /\ DefaultBudget /\ AlwaysStatus(500) /\ cfg.on_failure) =>
        /\ sends = DefaultMaxRetries + 1
        /\ returned[1] = Err("MaxRetriesExceeded")
        /\ Cardinality(EventsOf("on_failure")) = 1

\* C1 amended: with max_retries = 3 and no overrides, a transport that
\* always answers 500 is tried exactly 4 times with 3 sleeps, and the
\* sequence then ends with the last 500 response as Ok(response); no
\* on_failure event is emitted and no RetryError is returned.
C1_LastResponseReturned ==
    (Completed /\ DefaultBudget /\ AlwaysStatus(500)) =>
        /\ sends = DefaultMaxRetries + 1
        /\ sleeps = DefaultMaxRetries
        /\ returned = <<Ok(hist[DefaultMaxRetries + 1])>>
        /\ EventsOf("on_failure") = {}

C1_Witness ==
    /\ Completed /\ DefaultBudget /\ AlwaysStatus(500) /\ cfg.on_failure
    /\ sends = DefaultMaxRetries + 1
    /\ returned[1].ok

----------------------------------------------------------------------------
(* C2: a response that is not retried is the result                         *)

C2_Step ==
    (/\ AttemptCompletes
     /\ LET o == hist'[Len(hist')] IN
        /\ o.resp
        /\ \/ ~should_retry_response(cfg, o)
           \/ attempts >= EffectiveMax(default_response_classifier(o)))
    => (/\ returned' = Append(returned, Ok(hist'[Len(hist')]))
        /\ attempts' = attempts
        /\ current_error_type' = current_error_type
        /\ sleeps' = sleeps
        /\ sleep' = None
        /\ state' # "Sleeping"
        /\ events' = events)

C2_Always429 ==
    (Completed /\ AlwaysStatus(TooManyRequests) /\ cfg.max_retries = DefaultMaxRetries) =>
        returned = <<Ok(LastOutcome)>>

\* C2: whenever an attempt returns a response that should_retry_response
\* rejects, or accepts with attempts >= the effective max_retries of its
\* reason, poll returns Ok(that response) in the same step, starts no sleep,
\* leaves the counter alone and emits nothing; a transport that always
\* answers 429 under max_retries = 3 ends in Ok.
C2_ResponseIsResult == [][C2_Step]_vars /\ []C2_Always429

C2_Witness ==
    /\ Completed /\ AlwaysStatus(TooManyRequests)
    /\ cfg.max_retries = DefaultMaxRetries
    /\ attempts >= EffectiveMax("RateLimit")
    /\ attempts > 0
    /\ returned = <<Ok(LastOutcome)>>

----------------------------------------------------------------------------
(* C3: k retried outcomes of one reason, then an accepted response          *)

\* the first Len(hist) - 1 outcomes are retryable and classified alike, the
\* last one is a response should_retry_response rejects
C3_Scenario(reason) ==
    /\ hist # <<>>
    /\ LastOutcome.resp
    /\ ~should_retry_response(cfg, LastOutcome)
    /\ \A i \in 1..(Len(hist) - 1) : Retryable(hist[i]) /\ classify(hist[i]) = reason
    /\ Len(hist) - 1 <= EffectiveMax(reason)

\* C3: if the first k attempts end in retryable outcomes of reason R, with
\* k <= the effective max_retries of R, and attempt k+1 returns a response
\* should_retry_response rejects, the sequence has made k+1 transport calls
\* and k sleeps and returns that response; a configured on_retry observer
\* has seen exactly k events, all with error_type = R.
C3_RetriesThenSuccess ==
    \A reason \in RetryReasons :
        C3_Scenario(reason) =>
            /\ sends = Len(hist)
            /\ sleeps = Len(hist) - 1
            /\ attempts = Len(hist) - 1
            /\ returned = <<Ok(LastOutcome)>>
            /\ cfg.on_retry =>
                  /\ Len(events) = Len(hist) - 1
                  /\ \A i \in 1..Len(events) :
                        /\ events[i].kind = "on_retry"
                        /\ events[i].error_type = reason
            /\ ~cfg.on_retry => events = <<>>

C3_Witness ==
    /\ C3_Scenario("RateLimit")
    /\ Len(hist) = 3
    /\ hist[1].status = TooManyRequests /\ hist[2].status = TooManyRequests
    /\ EffectiveMax("RateLimit") = 3
    /\ cfg.on_retry
    /\ Len(events) = 2
    /\ sleeps = 2 /\ sends = 3

----------------------------------------------------------------------------
(* C4: a first response that is not retryable                               *)

\* C4: when the first attempt returns a response should_retry_response
\* rejects (status 400 under the default predicate), the sequence ends with
\* Ok(that response) after one transport call, no sleep and no telemetry.
C4_FirstResponseAccepted ==
    (/\ hist # <<>>
     /\ hist[1].resp
     /\ (hist[1].status = 400 \/ ~should_retry_response(cfg, hist[1])))
    => (/\ hist = <<hist[1]>>
        /\ sends = 1
        /\ sleeps = 0
        /\ attempts = 0
        /\ events = <<>>
        /\ returned = <<Ok(hist[1])>>)

C4_Witness ==
    /\ hist # <<>> /\ hist[1].resp /\ hist[1].status = 400
    /\ cfg.should_retry_response = "default_should_retry_response"
    /\ cfg.max_retries > 0
    /\ returned = <<Ok(hist[1])>>
    /\ sends = 1

----------------------------------------------------------------------------
(* C5: a transport failure the predicate rejects is terminal                *)

C5_Step ==
    (/\ AttemptCompletes
     /\ LET o == hist'[Len(hist')] IN ~o.resp /\ ~should_retry(cfg, o))
    => (/\ returned' = Append(returned, ErrWith("NonRetryableError", hist'[Len(hist')]))
        /\ attempts' = attempts
        /\ current_error_type' = current_error_type
        /\ sends' = sends
        /\ sleeps' = sleeps
        /\ sleep' = None
        /\ state' # "Sleeping"
        /\ events' = events)

C5_NothingFollows ==
    (hist # <<>> /\ ~LastOutcome.resp /\ ~should_retry(cfg, LastOutcome)) =>
        /\ returned = <<ErrWith("NonRetryableError", LastOutcome)>>
        /\ sends = Len(hist)
        /\ state = "Requesting" /\ future = "done"
        /\ sleep = None

\* C5: whenever an attempt ends in a transport failure should_retry rejects,
\* poll returns RetryError::NonRetryableError carrying that failure in the
\* same step, whatever budget remains; the counter is not incremented, no
\* sleep is started, nothing is emitted and no transport call follows.
C5_PredicateIsTerminal == [][C5_Step]_vars /\ []C5_NothingFollows

C5_Witness ==
    /\ Completed
    /\ returned[1].err = "NonRetryableError"
    /\ attempts < cfg.max_retries
    /\ attempts < EffectiveMax(classify(LastOutcome))
    /\ sends = Len(hist)

----------------------------------------------------------------------------
(* C6: a retryable transport failure with the budget used up                *)

C6_Step ==
    (/\ AttemptCompletes
     /\ LET o == hist'[Len(hist')] IN
        /\ ~o.resp
        /\ should_retry(cfg, o)
        /\ attempts >= EffectiveMax(default_error_classifier(o)))
    => (/\ returned' = Append(returned, ErrWith("RequestError", hist'[Len(hist')]))
        /\ attempts' = attempts
        /\ sleeps' = sleeps
        /\ sleep' = None
        /\ state' # "Sleeping"
        /\ IF cfg.on_failure
           THEN /\ Len(events') = Len(events) + 1
                /\ SubSeq(events', 1, Len(events)) = events
                /\ LET e == events'[Len(events')] IN
                   /\ e.kind = "on_failure"
                   /\ e.error = Some(hist'[Len(hist')].id)
                   /\ e.error_type = default_error_classifier(hist'[Len(hist')])
           ELSE events' = events)

C6_LastFailureCarried ==
    (Completed /\ returned[1].err = "RequestError") =>
        /\ returned[1].outcome = Some(LastOutcome)
        /\ LastOutcome.id = sends
        /\ Cardinality(EventsOf("on_failure")) = IF cfg.on_failure THEN 1 ELSE 0
        /\ \A i \in EventsOf("on_retry") : events[i].error # Some(sends)

\* C6: whenever an attempt ends in a transport failure should_retry accepts
\* while attempts >= the effective max_retries of its reason, poll emits
\* on_failure exactly once (if configured) and returns
\* RetryError::RequestError carrying that last failure, not an earlier one;
\* no sleep is started and no on_retry is emitted for it.
C6_BudgetExhausted == [][C6_Step]_vars /\ []C6_LastFailureCarried

C6_Witness ==
    /\ Completed
    /\ returned[1].err = "RequestError"
    /\ Len(hist) >= 2
    /\ ~hist[1].resp
    /\ cfg.on_failure /\ cfg.on_retry
    /\ events[Len(events)].kind = "on_failure"
    /\ events[Len(events)].error = Some(sends)

----------------------------------------------------------------------------
(* C7: the first attempt, and a budget of zero                              *)

\* no reason has a budget: the base max_retries is 0 and no override raises it
ZeroBudget ==
    /\ cfg.max_retries = 0
    /\ \A reason \in RetryReasons : EffectiveMax(reason) = 0

\* C7: the budget never refuses the first attempt (a request that can be
\* cloned is sent by the first poll whatever max_retries is), and with an
\* effective max_retries of 0 exactly one transport call is made, a failed
\* attempt ends in RequestError or NonRetryableError, and the sequence never
\* sleeps.
C7_FirstAttemptAndZeroBudget ==
    /\ (Cloneable /\ (Completed \/ state # "Ready")) => sends >= 1
    /\ \A i \in 1..Len(returned) : returned[i].err # "MaxRetriesExceeded"
    /\ ZeroBudget =>
          /\ sends <= 1
          /\ sleeps = 0
          /\ attempts = 0
          /\ state # "Sleeping"
          /\ hist # <<>> => Completed
          /\ (hist # <<>> /\ ~hist[1].resp) =>
                 returned[1].err \in {"RequestError", "NonRetryableError"}

C7_Witness ==
    /\ ZeroBudget
    /\ Completed
    /\ sends = 1
    /\ ~hist[1].resp
    /\ returned[1].err = "RequestError"

----------------------------------------------------------------------------
(* C8: a request that cannot be cloned                                      *)

C8_Step ==
    (~Cloneable /\ returned = <<>> /\ PollStep) =>
        returned' = <<Err("RequestBuilderCloneError")>>

C8_NothingDone ==
    ~Cloneable =>
        /\ sends = 0
        /\ sleeps = 0
        /\ hist = <<>>
        /\ events = <<>>
        /\ state = "Ready"
        /\ \A i \in 1..Len(returned) : returned[i] = Err("RequestBuilderCloneError")

\* C8: if the request cannot be cloned, the first poll returns
\* RetryError::RequestBuilderCloneError: no transport call is made, no sleep
\* is started and nothing is emitted.
C8_CloneFailureIsImmediate == [][C8_Step]_vars /\ []C8_NothingDone

C8_Witness ==
    /\ ~Cloneable
    /\ returned # <<>>
    /\ returned[1] = Err("RequestBuilderCloneError")
    /\ sends = 0

----------------------------------------------------------------------------
(* C9: polling after the final result                                       *)

\* RetryState::Done is never entered
DoneNeverEntered == state # "Done"

\* C9 as stated: once poll has returned the final result, the result is not
\* returned again and every later poll ends in the panic of the Done arm,
\* with no transport call, timer or telemetry.
C9_TerminalOnce ==
    [][Completed =>
          /\ returned' = returned
          /\ panicked' = "RetryFuture polled after completion"
          /\ sends' = sends
          /\ sleeps' = sleeps
          /\ events' = events]_vars

----------------------------------------------------------------------------
(* C10: telemetry before each delay and on terminal failure                 *)

\* C10 as stated: every sleep is preceded by one on_retry event, and every
\* sequence that ends in an error has emitted an on_failure event.
C10_TelemetryOnEveryFailure ==
    /\ cfg.on_retry => Cardinality(EventsOf("on_retry")) = sleeps
    /\ (Completed /\ ~returned[1].ok /\ cfg.on_failure) => EventsOf("on_failure") # {}

C10_SleepStep ==
    (state # "Sleeping" /\ state' = "Sleeping" /\ cfg.on_retry) =>
        /\ Len(events') = Len(events) + 1
        /\ SubSeq(events', 1, Len(events)) = events
        /\ events'[Len(events')].kind = "on_retry"
        /\ events'[Len(events')].delay = sleep'[1]
        /\ sleeps' = sleeps + 1

C10_FailureTelemetry ==
    /\ cfg.on_retry => Cardinality(EventsOf("on_retry")) = sleeps
    /\ (Completed /\ cfg.on_failure) =>
          /\ returned[1].err = "RequestError" =>
                /\ Cardinality(EventsOf("on_failure")) = 1
                /\ events[Len(events)].kind = "on_failure"
          /\ returned[1].err \in {"NonRetryableError", "RequestBuilderCloneError"} =>
                EventsOf("on_failure") = {}

\* C10 amended: with observers configured, every entry into Sleeping is
\* preceded by exactly one on_retry event for that retry, and every sequence
\* that ends with the budget-exhausted RetryError::RequestError has emitted
\* exactly one on_failure event; a sequence that ends with NonRetryableError
\* or RequestBuilderCloneError emits no on_failure event.
C10_TelemetryOnExhaustion == [][C10_SleepStep]_vars /\ []C10_FailureTelemetry

C10_Witness ==
    /\ Completed
    /\ cfg.on_retry /\ cfg.on_failure
    /\ returned[1].err = "NonRetryableError"
    /\ sleeps >= 1
    /\ Cardinality(EventsOf("on_retry")) = sleeps
    /\ EventsOf("on_failure") = {}

----------------------------------------------------------------------------
(* C11: dropping the RetryFuture                                            *)

\* once dropped, nothing is outstanding: no timer and no transport call
C11_Released == dropped => (sleep = None /\ future # "pending")

\* the drop issues nothing, emits nothing and returns nothing; it cancels
\* the transport call of Requesting and releases the timer of Sleeping
C11_DropStep ==
    (~dropped /\ dropped') =>
        /\ UNCHANGED <<attempts, sends, sleeps, hist, events, returned>>
        /\ (state = "Requesting" /\ future = "pending") => future' = "cancelled"
        /\ state = "Sleeping" => (sleep # None /\ sleep' = None)

\* nothing follows the drop
C11_AfterDrop == dropped => UNCHANGED vars

\* C11: dropping the sequence while it sleeps releases the timer and nothing
\* happens afterwards: the pending attempt is never issued and no on_retry or
\* on_failure is emitted; dropping it while an attempt is outstanding cancels
\* the transport call, and no telemetry is emitted for the cancelled attempt.
C11_DropCancels == [][C11_DropStep /\ C11_AfterDrop]_vars /\ []C11_Released

C11_Witness ==
    /\ dropped
    /\ state = "Sleeping"
    /\ sleep = None
    /\ cfg.on_retry
    /\ sends = 1
    /\ Len(events) = 1

----------------------------------------------------------------------------
(* C12: termination                                                         *)

\* no more transport calls than the largest budget allows
C12_Finite == sends <= MaxBudget + 1

\* C12: if every transport call completes and every timer elapses, a
\* sequence that its owner does not drop returns a final result after
\* finitely many attempts (every max_retries is finite).
C12_Terminates == <>(Completed \/ dropped) /\ []C12_Finite

C12_Witness ==
    /\ Completed
    /\ ~dropped
    /\ sends = MaxBudget + 1
    /\ sleeps = MaxBudget

----------------------------------------------------------------------------
(* C13: policy resolution                                                   *)

\* the override of a reason, if the policy has one
OverrideOf(reason) ==
    IF reason \in DOMAIN cfg.error_strategies
    THEN Some(cfg.error_strategies[reason])
    ELSE None

Resolved == call # None /\ call[1].fn = "get_effective_strategy"

\* every field of the result is the override's value if the override sets
\* it, and the base value of the policy otherwise
C13_PerField ==
    Resolved =>
        LET o == OverrideOf(call[1].error_type)
            e == call[1].result IN
        IF o = None
        THEN /\ e.max_retries = cfg.max_retries
             /\ e.base_delay = cfg.base_delay
             /\ e.max_delay = cfg.max_delay
             /\ e.backoff_multiplier = cfg.backoff_multiplier
             /\ e.backoff_fn = cfg.backoff_fn
        ELSE /\ e.max_retries = IF o[1].max_retries # None
                                THEN o[1].max_retries[1] ELSE cfg.max_retries
             /\ e.base_delay = IF o[1].base_delay # None
                               THEN o[1].base_delay[1] ELSE cfg.base_delay
             /\ e.max_delay = IF o[1].max_delay # None
                              THEN o[1].max_delay[1] ELSE cfg.max_delay
             /\ e.backoff_multiplier = IF o[1].backoff_multiplier # None
                                       THEN o[1].backoff_multiplier[1]
                                       ELSE cfg.backoff_multiplier
             /\ e.backoff_fn = IF o[1].backoff_fn # None
                               THEN o[1].backoff_fn[1] ELSE cfg.backoff_fn

\* base 3 retries / 100 ms with a RateLimit override of 10 retries / 1 s
C13_Example ==
    (Resolved /\ cfg = TestConfig) =>
        /\ call[1].error_type = "RateLimit" =>
              (call[1].result.max_retries = 10 /\ call[1].result.base_delay = 1000)
        /\ call[1].error_type = "NetworkError" =>
              (call[1].result.max_retries = 3 /\ call[1].result.base_delay = 100)

\* C13: get_effective_strategy(reason) returns, field by field, the value of
\* the reason's override if the override sets the field and the base value
\* otherwise; with no override it returns the base fields; the resolution
\* does not modify the policy.
C13_Resolution == [](C13_PerField /\ C13_Example) /\ [][cfg' = cfg]_vars

C13_Witness ==
    /\ Resolved
    /\ cfg = TestConfig
    /\ call[1].error_type = "RateLimit"
    /\ call[1].result.max_retries = 10
    /\ call[1].result.base_delay = 1000
    /\ call[1].result.max_delay = DefaultMaxDelay

----------------------------------------------------------------------------
(* C14: max_attempts of the telemetry                                       *)

\* C14: in every RetryAttempt handed to on_retry or on_failure, max_attempts
\* is the effective max_retries of the event's error_type plus one.
C14_MaxAttempts ==
    \A i \in 1..Len(events) :
        events[i].max_attempts = EffectiveMax(events[i].error_type) + 1

C14_Witness ==
    /\ cfg.max_retries # MaxBudget
    /\ \E i \in EventsOf("on_retry") :
          /\ events[i].error_type = "RateLimit"
          /\ events[i].max_attempts = MaxBudget + 1
    /\ \E i \in EventsOf("on_failure") :
          events[i].max_attempts = EffectiveMax(events[i].error_type) + 1

----------------------------------------------------------------------------
(* C15: the attempt field of the telemetry                                  *)

\* the step hands a RetryAttempt to an observer
Emits == Len(events') = Len(events) + 1

\* C15 as stated: the attempt field of every RetryAttempt is the 0-based
\* index of the attempt whose outcome produced the event: the event emitted
\* when the first attempt fails carries attempt = 0, for on_retry and for
\* on_failure alike.  (The outcome that completes in a step is the one of
\* index Len(hist), counted from 0.)
C15_ZeroBasedIndex ==
    [][Emits => events'[Len(events')].attempt = Len(hist)]_vars

----------------------------------------------------------------------------
(* C16: observers that fail                                                 *)

\* C16 as stated: a failure of an on_retry or on_failure observer never
\* aborts or alters the sequence: whether or not the observer fails, the
\* step that calls on_retry goes on to Sleeping and the step that calls
\* on_failure returns the terminal error carrying the last failure.
C16_ObserverFailureIgnored ==
    [][Emits =>
          IF events'[Len(events')].kind = "on_retry"
          THEN state' = "Sleeping" /\ sleep' # None /\ panicked' = "none"
          ELSE /\ returned' = <<ErrWith("RequestError", hist'[Len(hist')])>>
               /\ panicked' = "none"]_vars

----------------------------------------------------------------------------
(* C17: RetryFutures that share a policy                                    *)

FieldsOf(t) ==
    [ request_builder |-> t[1], attempts |-> t[2], current_error_type |-> t[3],
      state |-> t[4], future |-> t[5], sleep |-> t[6], sends |-> t[7],
      sleeps |-> t[8], hist |-> t[9], events |-> t[10], returned |-> t[11],
      panicked |-> t[12], dropped |-> t[13] ]

BothFutures ==
    {FieldsOf(seq)} \cup (IF parked = None THEN {} ELSE {FieldsOf(parked[1])})

\* the on_retry event of the i-th retry, from the outcome that caused it
ExpectedRetry(h, i) ==
    LET reason == classify(h[i])
        strategy == get_effective_strategy(cfg, reason) IN
    RetryAttempt("on_retry", i, strategy.max_retries + 1,
                 call_backoff(strategy.backoff_fn, i, strategy.base_delay,
                              strategy.backoff_multiplier, strategy.max_delay),
                 h[i], reason)

\* the final result, from the last outcome
ExpectedResult(o) ==
    IF o.resp THEN Ok(o)
    ELSE IF should_retry(cfg, o) THEN ErrWith("RequestError", o)
    ELSE ErrWith("NonRetryableError", o)

\* what a RetryFuture of this policy holds is determined by its own
\* transport outcomes (and by whether its request can be cloned)
Alone(s) ==
    LET h == s.hist
        done == s.future = "done"
        a == Len(h) - (IF done THEN 1 ELSE 0)
        failed == done /\ ~h[Len(h)].resp /\ should_retry(cfg, h[Len(h)]) IN
    /\ s.attempts = a
    /\ s.sleeps = a
    /\ s.sends = Len(h) + (IF s.future \in {"pending", "cancelled"} THEN 1 ELSE 0)
    /\ s.current_error_type = IF a = 0 THEN None ELSE Some(classify(h[a]))
    /\ \A i \in 1..a :
          /\ Retryable(h[i])
          /\ i - 1 < EffectiveMax(classify(h[i]))
          /\ s.events[i] = ExpectedRetry(h, i)
    /\ Len(s.events) = a + (IF failed THEN 1 ELSE 0)
    /\ failed => s.events[a + 1].kind = "on_failure"
    /\ s.sleep # None => (s.state = "Sleeping" /\ s.sleep = Some(s.events[a].delay))
    /\ done => s.returned = <<ExpectedResult(h[Len(h)])>>
    /\ (~done /\ s.returned # <<>>) =>
          /\ h = <<>>
          /\ ~s.request_builder[1].cloneable
          /\ \A j \in 1..Len(s.returned) :
                s.returned[j] = Err("RequestBuilderCloneError")

\* a poll of one RetryFuture leaves the other as it is, and so does the
\* executor when it turns from one to the other
C17_Frame ==
    /\ running' = running => parked' = parked
    /\ running' # running => (parked' = Some(seq) /\ seq' = parked[1])

\* C17: RetryFutures that run concurrently with one policy are independent:
\* in every interleaving of their polls the attempt count, the sleeps, the
\* telemetry and the final result of each are determined by its own
\* transport outcomes, as when it runs alone; no poll touches the fields of
\* the other RetryFuture, and the policy is never written.
C17_Independent ==
    /\ [](\A s \in BothFutures : Alone(s))
    /\ [][C17_Frame]_vars
    /\ [][cfg' = cfg]_vars

C17_Witness ==
    /\ parked # None
    /\ running = 2
    /\ state = "Requesting" /\ future = "pending" /\ attempts = 0
    /\ FieldsOf(parked[1]).state = "Sleeping"
    /\ FieldsOf(parked[1]).attempts = 1
    /\ FieldsOf(parked[1]).sleep # None

-----------------------------------------------------------------------------
(* The backoff functions *)

\* a <= b, for two values of the same width
at_most(a, b) == ~less(b, a)

\* the call of a backoff function that has been made
Called(fns) == call # None /\ call[1].fn \in fns

\* the product a backoff function of u64 arithmetic forms, 16 digits wide:
\* base_delay_ms * attempt, or base_delay_ms * max(F(attempt + 1), 1)
ExactProduct(c) ==
    IF c.fn = "linear" THEN product(c.base_delay, from_millis(c.attempt))
    ELSE product(c.base_delay, fib_multiplier(c.attempt))

\* the product does not fit in 64 bits
Overflows(c) == ~is_zero(high(ExactProduct(c), 8))

\* C18 as stated: every backoff function returns, and returns a delay in
\* [0, max_delay], whatever attempt, base_delay, multiplier and max_delay.
C18_InRange ==
    Called({"linear", "fixed", "fibonacci", "exponential_jitter"}) =>
        /\ call[1].result # None
        /\ at_most(call[1].result[1], call[1].max_delay)

\* C19 as stated: no backoff function panics or wraps around when its
\* intermediate product overflows: whenever base_delay_ms * attempt,
\* base_delay_ms * F(attempt + 1) or base_delay_ms * multiplier^attempt
\* leaves the 64-bit range, the call returns max_delay.
C19_Saturates ==
    /\ (Called({"linear", "fibonacci"}) /\ Overflows(call[1])) =>
          call[1].result = Some(call[1].max_delay)
    /\ (Called({"exponential_jitter", "default_backoff"})
           /\ exponential(call[1].attempt, call[1].base_delay, call[1].multiplier).exp > 12) =>
          call[1].result = Some(call[1].max_delay)

\* C20 as stated: linear(a, d, _, max) returns min(d * a, max) for every
\* attempt number a, whatever the multiplier: 0 at a = 0, 100 ms at a = 1
\* and 200 ms at a = 2 for d = 100 ms and max = 10 s.
C20_Linear ==
    Called({"linear"}) =>
        call[1].result =
            Some(Min(saturate(ExactProduct(call[1]), 8), call[1].max_delay))

\* C21 as stated: fibonacci(a, d, _, max) returns
\* min(d * max(F(a + 1), 1), max) for every attempt number a, with F
\* computed by saturating addition (100, 200 and 300 ms at a = 1, 2, 3 for
\* d = 100 ms and max = 10 s), and the delay does not decrease as the
\* attempt number grows.
C21_Fibonacci ==
    Called({"fibonacci"}) =>
        LET c == call[1] IN
        /\ c.result = Some(Min(saturate(ExactProduct(c), 8), c.max_delay))
        /\ \A earlier \in Attempts :
              earlier < c.attempt =>
                  LET before == fibonacci(earlier, c.base_delay, c.multiplier,
                                          c.max_delay) IN
                  before # None /\ at_most(before[1], c.result[1])

\* C22: fixed(0, d, _, _) returns 0 and fixed(a, d, _, _) returns d for
\* every a >= 1: the delay is the same for every multiplier and every
\* max_delay, also for a max_delay below d.
C22_Fixed ==
    Called({"fixed"}) =>
        LET c == call[1] IN
        /\ c.result = Some(IF c.attempt = 0 THEN from_millis(0) ELSE c.base_delay)
        /\ \A multiplier \in Multipliers, max_delay \in Durations :
              fixed(c.attempt, c.base_delay, multiplier, max_delay) = c.result

\* fixed has returned a base_delay that is above max_delay
C22_Witness ==
    /\ Called({"fixed"})
    /\ call[1].attempt >= 1
    /\ less(call[1].max_delay, call[1].base_delay)
    /\ call[1].result = Some(call[1].base_delay)

\* a value without the zero digits at its top
trim(d) == IF is_zero(d) THEN <<0>> ELSE low(d, leading(d))

\* n^a from the power h of half the exponent
power_step(h, n, a) ==
    IF a % 2 = 1 THEN trim(product(trim(product(h, h)), digits(n, 4)))
    ELSE trim(product(h, h))

\* n^a in whole numbers, exactly
RECURSIVE exact_power(_, _)
exact_power(n, a) ==
    IF a = 0 THEN <<1>> ELSE power_step(exact_power(n, a \div 2), n, a)

\* base_delay_ms * multiplier^attempt for the multiplier n / 2^k, from
\* the exact n^attempt and the exact base_delay_ms * n^attempt: its whole
\* part, 9 digits wide (the largest 9-digit value if it is 2^72 or more,
\* which is above every u64); whether it has a fraction; whether
\* base_delay_ms * n^attempt is below 2^53 and multiplier^attempt below
\* 2^1023, so that the powers and the product are exact in f64; and
\* whether multiplier^attempt is 2^1025 or more, which is above every
\* finite f64
exact_from(power, scaled, shift) ==
    [ whole |-> saturate(shift_right(scaled, shift) \o zero(9), 9),
      fraction |-> shift_left(shift_right(scaled, shift), shift) # scaled,
      exact |-> bit_length(scaled) <= 53 /\ bit_length(power) - shift <= 1023,
      overflows |-> bit_length(power) - shift > 1025 ]

\* computed once for the calls of the backoff functions
ExactPowers ==
    [ x \in Multipliers \X Attempts |-> exact_power(x[1][1], x[2]) ] @@ <<>>

ExactExponentials ==
    [ x \in Durations \X Multipliers \X Attempts |->
        exact_from(ExactPowers[<<x[2], x[3]>>],
                   product(x[1], ExactPowers[<<x[2], x[3]>>]),
                   x[2][2] * x[3]) ] @@ <<>>

Exact(c) == ExactExponentials[<<c.base_delay, c.multiplier, c.attempt>>]

\* the whole part of base_delay_ms * multiplier^attempt
ExactExponential(c) == Exact(c).whole

\* the whole part of min(base_delay_ms * multiplier^attempt, max_delay_ms)
ExactCapped(c) == low(Min(ExactExponential(c), widen(c.max_delay, 9)), 8)

\* min(base_delay_ms * multiplier^attempt, max_delay_ms) is a whole number
WholeCapped(c) == Exact(c).fraction => at_most(widen(c.max_delay, 9), ExactExponential(c))

\* 2 * d + 1 of a u64, 10 digits wide
twice_and_one(d) == sum(sum(d, d), digits(1, 9))

\* max_delay.as_millis() as f64, as a whole number
max_delay_as_f64(c) == as_u64(max_delay_f64(c.max_delay))

within_jitter(c, delay, exact, capped) ==
    /\ ~(is_zero(c.base_delay) /\ exact.overflows) => at_most(widen(delay, 9), exact.whole)
    /\ exact.overflows => delay = max_delay_as_f64(c)
    /\ at_most(delay, max_delay_as_f64(c))
    /\ bit_length(c.max_delay) <= 53 => at_most(delay, c.max_delay)
    /\ exact.exact => at_most(widen(capped, 10), twice_and_one(delay))

-----------------------------------------------------------------------------
(* The order of attempts and sleeps *)

\* what a step may do to the state of the sequence: a transport call is
\* issued in a step from Ready to Requesting and in no other; a timer is
\* started in a step from Requesting to Sleeping and in no other; Ready is
\* entered from Sleeping alone, in the step in which the timer elapses; and
\* Sleeping is left for Ready alone
C25_Step ==
    /\ (sends' # sends \/ (state # "Requesting" /\ state' = "Requesting")) =>
          /\ state = "Ready" /\ state' = "Requesting"
          /\ sends' = sends + 1
          /\ future' = "pending"
    /\ (sleeps' # sleeps \/ (state # "Sleeping" /\ state' = "Sleeping")) =>
          /\ state = "Requesting" /\ state' = "Sleeping"
          /\ sleeps' = sleeps + 1
          /\ sleep' # None
    /\ (state # "Ready" /\ state' = "Ready") =>
          /\ state = "Sleeping"
          /\ sleep # None /\ sleep' = None
    /\ (state = "Sleeping" /\ state' # "Sleeping") => state' = "Ready"

\* one sleep has been started for every transport call but the one that is
\* outstanding or was the last
C25_Counts ==
    /\ state = "Requesting" => sends = sleeps + 1
    /\ state \in {"Ready", "Sleeping"} => sends = sleeps
    /\ sends <= sleeps + 1

\* a sleep of a RetryFuture that is not dropped ends in Ready
C25_Returns == (state = "Sleeping") ~> (state = "Ready" \/ dropped)

\* C25: attempts and sleeps strictly alternate: a transport call is issued
\* only from Ready, Ready is re-entered only when the timer of the
\* preceding Sleeping has elapsed, every sleep of a RetryFuture that stays
\* alive is followed by Ready, exactly one sleep lies between two
\* consecutive transport calls, and the number of transport calls is at
\* most the number of sleeps started plus one.
C25_Alternation == [][C25_Step]_vars /\ []C25_Counts /\ C25_Returns

\* the second transport call is outstanding, after one sleep
C25_Witness ==
    /\ state = "Requesting" /\ future = "pending"
    /\ sends = 2 /\ sleeps = 1
    /\ sleep = None

-----------------------------------------------------------------------------
(* What a retry does *)

\* the outcome of the attempt that completes in this step
Completing == hist'[Len(hist')]

\* a retry is decided for the outcome o: the predicate of its kind accepts
\* it, and the counter is below the budget of its reason
RetryDecided(o) == Retryable(o) /\ attempts < EffectiveMax(classify(o))

\* the delay of the strategy of a reason, for a value of the counter
DelayOf(reason, counter) ==
    LET strategy == get_effective_strategy(cfg, reason) IN
    call_backoff(strategy.backoff_fn, counter, strategy.base_delay,
                 strategy.backoff_multiplier, strategy.max_delay)

\* C26: whenever a retry is decided, the counter is incremented by exactly
\* one, the last-seen reason becomes the reason just classified, the timer
\* that is started runs for the delay that the effective backoff_fn of that
\* reason gives for (counter after the increment, effective base_delay,
\* effective multiplier, effective max_delay), and the on_retry event, if
\* an observer is configured, carries the same delay.
C26_Step ==
    (AttemptCompletes /\ RetryDecided(Completing)) =>
        LET reason == classify(Completing)
            delay == DelayOf(reason, attempts + 1) IN
        /\ attempts' = attempts + 1
        /\ current_error_type' = Some(reason)
        /\ state' = "Sleeping"
        /\ sleep' = Some(delay)
        /\ cfg.on_retry =>
              /\ Len(events') = Len(events) + 1
              /\ events'[Len(events')].kind = "on_retry"
              /\ events'[Len(events')].error_type = reason
              /\ events'[Len(events')].delay = delay

C26_RetryDecided == [][C26_Step]_vars

\* a retry for RateLimit has followed a retry for NetworkError: the timer
\* and the event have the 2000 ms of linear for the counter 2, not the
\* 200 ms of fibonacci, the strategy of the reason recorded before, and not
\* the 1000 ms of linear for the counter 1
C26_Witness ==
    /\ state = "Sleeping"
    /\ attempts = 2
    /\ Len(hist) = 2
    /\ classify(hist[1]) = "NetworkError"
    /\ current_error_type = Some("RateLimit")
    /\ get_effective_strategy(cfg, "NetworkError").backoff_fn = "fibonacci"
    /\ get_effective_strategy(cfg, "RateLimit").backoff_fn = "linear"
    /\ DelayOf("NetworkError", 2) = 200
    /\ DelayOf("RateLimit", 1) = 1000
    /\ sleep = Some(2000)
    /\ events # <<>>
    /\ events[Len(events)].delay = 2000

-----------------------------------------------------------------------------
(* The guards of the Ready arm *)

\* C27: the budget guard of the Ready arm never fires: in every Ready
\* state the counter is at most the max_retries of the strategy of the
\* last-seen reason (of the base policy before the first retry), so that no
\* sequence ends with MaxRetriesExceeded; and the request is never taken
\* out of the RetryFuture, so that none ends with RequestBuilderNotAvailable.
C27_GuardsNeverFire ==
    /\ state = "Ready" => attempts <= ReadyStrategy.max_retries
    /\ request_builder # None
    /\ \A i \in 1..Len(returned) :
          returned[i].err \notin {"MaxRetriesExceeded", "RequestBuilderNotAvailable"}

\* Ready after the last retry that an override allows, with a counter that
\* is above the max_retries of the base policy
C27_Witness ==
    /\ state = "Ready"
    /\ current_error_type # None
    /\ attempts = EffectiveMax(current_error_type[1])
    /\ attempts > cfg.max_retries

-----------------------------------------------------------------------------
(* One counter for all reasons *)

\* the counter never decreases, and it advances, by one, only when an
\* attempt completes with an outcome whose reason has a max_retries above
\* the number of retries the sequence has used so far, for whatever reason
C28_Step ==
    /\ attempts' >= attempts
    /\ (attempts' # attempts \/ sleeps' # sleeps) =>
          /\ AttemptCompletes
          /\ attempts' = attempts + 1
          /\ sleeps < EffectiveMax(classify(Completing))

\* the counter is the number of retries of the sequence: 0 at the start,
\* and one more with every sleep
C28_Counted ==
    /\ attempts = sleeps
    /\ hist = <<>> => attempts = 0

\* C28: the attempt counter is one counter shared by all reasons: it starts
\* at 0, never decreases and is never reset, and an outcome of reason R is
\* retried only if the number of retries the sequence has used, for any
\* reason, is below the effective max_retries of R.
C28_SharedCounter == [][C28_Step]_vars /\ []C28_Counted

\* two retries for RateLimit have used up the budget of NetworkError: the
\* first network error of the sequence is not retried
C28_Witness ==
    /\ Len(hist) = 3
    /\ classify(hist[1]) = "RateLimit" /\ classify(hist[2]) = "RateLimit"
    /\ classify(hist[3]) = "NetworkError"
    /\ Retryable(hist[3])
    /\ EffectiveMax("NetworkError") = 1
    /\ attempts = 2
    /\ sleeps = 2
    /\ returned = <<ErrWith("RequestError", hist[3])>>

-----------------------------------------------------------------------------
(* The size of a sequence *)

\* the max_retries of the base policy and of every override that sets one
Budgets ==
    {cfg.max_retries} \cup
    { cfg.error_strategies[r].max_retries[1] :
        r \in { q \in DOMAIN cfg.error_strategies :
                   cfg.error_strategies[q].max_retries # None } }

\* M, the largest of them
LargestBudget == CHOOSE m \in Budgets : \A n \in Budgets : n <= m

\* C29: whatever the transport answers, a sequence makes at most 1 + M
\* transport calls, at most M sleeps and at most M on_retry events, and its
\* counter never exceeds M, where M is the largest of the base max_retries
\* and the max_retries of the configured overrides.
C29_Bounded ==
    /\ sends <= 1 + LargestBudget
    /\ sleeps <= LargestBudget
    /\ Cardinality(EventsOf("on_retry")) <= LargestBudget
    /\ attempts <= LargestBudget

\* a sequence that has reached every one of the bounds, with an M that is
\* the budget of an override and above the budget of the base policy
C29_Witness ==
    /\ LargestBudget > cfg.max_retries
    /\ sends = 1 + LargestBudget
    /\ sleeps = LargestBudget
    /\ Cardinality(EventsOf("on_retry")) = LargestBudget
    /\ attempts = LargestBudget
    /\ Completed

-----------------------------------------------------------------------------
(* One operation at a time *)

\* the transport calls that were issued and have not completed
InFlight == sends - Len(hist)

\* a transport call is outstanding only in Requesting and a timer only in
\* Sleeping, so never both; at most one transport call is in flight
C30_Exclusive ==
    /\ ~(future = "pending" /\ sleep # None)
    /\ future = "pending" => state = "Requesting"
    /\ sleep # None => state = "Sleeping"
    /\ InFlight \in {0, 1}
    /\ future = "pending" => InFlight = 1
    /\ state \in {"Ready", "Sleeping"} => InFlight = 0

\* the counter and the last-seen reason change only in the step in which an
\* attempt completes, and so in no step taken in Ready or in Sleeping
C30_Step ==
    /\ (attempts' # attempts \/ current_error_type' # current_error_type) =>
          AttemptCompletes
    /\ state \in {"Ready", "Sleeping"} => UNCHANGED <<attempts, current_error_type>>

\* C30: at most one operation of a sequence is outstanding at any time: a
\* transport call and a backoff timer are never outstanding together, no
\* more than one transport call is in flight, and the counter and the
\* last-seen reason change only when an attempt completes, never in
\* Sleeping or in Ready.
C30_OneOutstanding == [][C30_Step]_vars /\ []C30_Exclusive

\* the timer of the second retry is outstanding, and no transport call is
C30_Witness ==
    /\ state = "Sleeping"
    /\ sleep # None
    /\ future = "none"
    /\ InFlight = 0
    /\ attempts = 2
    /\ Len(hist) = 2

-----------------------------------------------------------------------------
(* The per-reason engine and the single-policy engine *)

\* the timer that the per-reason engine starts has the delay of the timer of
\* the same number that the single-policy engine started
C31_Step ==
    sleeps' # sleeps =>
        /\ sleeps' <= Len(single[1].delays)
        /\ sleep' = Some(single[1].delays[sleeps'])

\* the per-reason engine makes no attempt and no sleep that the
\* single-policy engine did not make, and when it returns it has made all
\* of them and returns the same result
C31_Follows ==
    Recorded =>
        /\ sends <= single[1].sends
        /\ sleeps <= Len(single[1].delays)
        /\ Completed =>
              /\ sends = single[1].sends
              /\ sleeps = Len(single[1].delays)
              /\ hist = single[1].hist
              /\ returned[1] = single[1].returned[1]

\* C31: with no overrides, the default backoff and no observers, the
\* per-reason engine of retry_future.rs and the single-policy engine of
\* lib.rs, given the same policy, the same request and the same transport
\* outcomes, make the same number of attempts, sleep the same delays in the
\* same order and return the same result.
C31_SameAsSinglePolicy == [][C31_Step]_vars /\ []C31_Follows

\* both engines have made three attempts and slept 2000 ms twice, the
\* second delay cut at max_delay, and both have returned the last error
C31_Witness ==
    /\ Recorded
    /\ Completed
    /\ sends = 3 /\ single[1].sends = 3
    /\ sleeps = 2 /\ single[1].delays = <<2000, 2000>>
    /\ ~hist[3].resp
    /\ returned[1] = ErrWith("RequestError", hist[3])
    /\ single[1].returned[1] = returned[1]

====
